---- MODULE Spec2Model ----
(***************************************************************************)
(* Model of the sudoku engine (src/src/sudoku/core.ts) and of the game     *)
(* session hook built on it (useSudoku).                                   *)
(*                                                                         *)
(* The source works on a 9x9 grid with 3x3 boxes.  The model keeps the     *)
(* code's structure and takes the box side as the bound Box: the grid is   *)
(* N x N with N = Box * Box, so Box = 3 is the source's grid and Box = 2   *)
(* is the 4x4 grid that an exhaustive search can cover.  Every literal 9   *)
(* of the source is N here, 3 is Box, 81 is NN and 10 is N + 1.            *)
(*                                                                         *)
(* shuffleInPlace followed by `for (const v of candidates)` is modelled    *)
(* lazily: the loop keeps the set of values it has not visited yet and     *)
(* each iteration takes any one of them.  A Fisher-Yates shuffle can       *)
(* produce every order, so the two describe the same runs.                 *)
(***************************************************************************)
EXTENDS Integers, Sequences, FiniteSets, TLC

\* Side of a box (3 in the source).
Box == 2

N == Box * Box
NN == N * N
Idx == 0 .. (N - 1)
Values == 1 .. N
CellIds == 0 .. (NN - 1)

RowOf(i) == i \div N
ColOf(i) == i % N

VARIABLES
    board,          \* the grid object handed around: `full` of generatePuzzle,
                    \* `board` of fillBoard / carvePuzzle / solve
    b,              \* solve's scratch copy
    solutions,      \* solve's counter
    countSolutions, \* solve's mode flag
    stack,          \* activation records of backtrack / fillBoard: the cell,
                    \* the values not tried yet and, as history, the grid
                    \* at the moment the call was entered
    pc,             \* control position
    ret,            \* value returned by the last finished recursive call
    result,         \* value returned by solve
    caller,         \* who called solve: "top" or "carve"
    given,          \* history: the caller's grid at the moment solve was called
    difficulty,     \* generatePuzzle's argument
    solution,       \* generatePuzzle's `solution`
    targetGiven,    \* carvePuzzle's locals: targetGiven, cells, attempts,
    cells,          \*   idx and backup
    attempts,
    idx,
    backup,
    puzzle,         \* the grid carvePuzzle returns
    args,           \* arguments of a direct call of isValidPlacement
    valid,          \* and the value it returned
    state,          \* useSudoku's state (SudokuState)
    generated,      \* history: what generatePuzzle returned to init
    timer,          \* GameTimer's props: completed, elapsedCompleted, difficulty
    bestTime,       \* GameTimer's bestTime state: {} for null, {ms} otherwise
    localStorage,   \* the browser's store: a function from the keys present
    finished        \* history: per difficulty, the elapsed times of the games
                    \* completed

solveVars == <<b, solutions, countSolutions, stack, ret, result, caller, given>>
carveVars == <<difficulty, solution, targetGiven, cells, attempts, idx, backup,
               puzzle>>
placeVars == <<args, valid>>
timerVars == <<timer, bestTime, localStorage, finished>>
gameVars == <<state, generated, timerVars>>
vars == <<board, pc, solveVars, carveVars, placeVars, gameVars>>

emptyBoard == [r \in Idx |-> [c \in Idx |-> 0]]

cloneBoard(g) == [r \in Idx |-> [c \in Idx |-> g[r][c]]]

\* g with cell (r, c) set to v: the assignment `g[r][c] = v`.
SetCell(g, r, c, v) == (r :> ((c :> v) @@ g[r])) @@ g

\* isValidPlacement with the target cell left out of the three scans.
isValidPlacementSkipsTarget(g, row, col, value) ==
    LET boxRow == (row \div Box) * Box
        boxCol == (col \div Box) * Box
    IN  /\ \A c \in Idx \ {col} : g[row][c] # value
        /\ \A r \in Idx \ {row} : g[r][col] # value
        /\ \A r \in 0 .. (Box - 1) : \A c \in 0 .. (Box - 1) :
              (boxRow + r # row \/ boxCol + c # col) =>
                  g[boxRow + r][boxCol + c] # value

\* isValidPlacement: three scans, none of which skips (row, col) itself.
isValidPlacement(g, row, col, value) ==
    LET boxRow == (row \div Box) * Box
        boxCol == (col \div Box) * Box
    IN  /\ \A c \in Idx : g[row][c] # value
        /\ \A r \in Idx : g[r][col] # value
        /\ \A r \in 0 .. (Box - 1) : \A c \in 0 .. (Box - 1) :
              g[boxRow + r][boxCol + c] # value

\* The candidate list built at core.ts:92-94 and again at 110-112.
Candidates(g, row, col) == {v \in Values : isValidPlacement(g, row, col, v)}

\* The scan of backtrack, cell by cell in row-major order.  i is the next cell
\* index; sel carries row, col and minOptions.  The two `break`s end the scan
\* as soon as minOptions is 1.
RECURSIVE Scan(_, _, _)
Scan(g, i, sel) ==
    IF i = NN \/ sel.minOptions = 1 THEN sel
    ELSE LET r == RowOf(i)
             c == ColOf(i)
             opts == Cardinality(Candidates(g, r, c))
         IN  IF g[r][c] = 0 /\ opts < sel.minOptions
             THEN Scan(g, i + 1, [row |-> r, col |-> c, minOptions |-> opts])
             ELSE Scan(g, i + 1, sel)

SelectCell(g) == Scan(g, 0, [row |-> -1, col |-> -1, minOptions |-> N + 1])

\* The variables of the parts a specification does not exercise.
NoCall == args = [row |-> 0, col |-> 0, value |-> 0] /\ valid = FALSE
NoGame ==
    /\ state = [puzzle |-> <<>>, solution |-> <<>>, working |-> <<>>,
                difficulty |-> "EASY", completed |-> FALSE, conflicts |-> {}]
    /\ generated = [puzzle |-> <<>>, solution |-> <<>>]
    /\ timer = [completed |-> FALSE, elapsedCompleted |-> 0, difficulty |-> "EASY"]
    /\ bestTime = {}
    /\ localStorage = <<>>
    /\ finished = [d \in {"EASY", "MEDIUM", "HARD", "EXPERT"} |-> {}]

Top == stack[Len(stack)]
Pop == SubSeq(stack, 1, Len(stack) - 1)

----------------------------------------------------------------------------
\* solve(board, countSolutions)

\* core.ts:81-82 and the call at 125.
SolveCall ==
    /\ pc = "solve"
    /\ b' = cloneBoard(board)
    /\ solutions' = 0
    /\ stack' = <<>>
    /\ pc' = "bt_call"
    /\ given' = board
    /\ UNCHANGED <<board, countSolutions, ret, result, caller>>
    /\ UNCHANGED carveVars
    /\ UNCHANGED <<placeVars, gameVars>>

\* Entry of backtrack: the scan, then either the solved leaf or the candidate
\* list of the chosen cell.
BacktrackScan ==
    /\ pc = "bt_call"
    /\ LET sel == SelectCell(b)
       IN  IF sel.row = -1
           THEN /\ solutions' = solutions + 1
                /\ ret' = TRUE
                /\ pc' = "bt_ret"
                /\ UNCHANGED stack
           ELSE /\ stack' = Append(stack, [row |-> sel.row, col |-> sel.col,
                                           rest |-> Candidates(b, sel.row, sel.col),
                                           entry |-> b])
                /\ pc' = "bt_loop"
                /\ UNCHANGED <<solutions, ret>>
    /\ UNCHANGED <<board, b, countSolutions, result, caller, given>>
    /\ UNCHANGED carveVars
    /\ UNCHANGED <<placeVars, gameVars>>

\* One iteration of the candidate loop up to the recursive call.
BacktrackTry ==
    /\ pc = "bt_loop"
    /\ Top.rest # {}
    /\ \E v \in Top.rest :
          /\ b' = SetCell(b, Top.row, Top.col, v)
          /\ stack' = [stack EXCEPT ![Len(stack)].rest = @ \ {v}]
    /\ pc' = "bt_call"
    /\ UNCHANGED <<board, solutions, countSolutions, ret, result, caller, given>>
    /\ UNCHANGED carveVars
    /\ UNCHANGED <<placeVars, gameVars>>

\* The loop ran out of candidates: return false.
BacktrackExhausted ==
    /\ pc = "bt_loop"
    /\ Top.rest = {}
    /\ stack' = Pop
    /\ ret' = FALSE
    /\ pc' = "bt_ret"
    /\ UNCHANGED <<board, b, solutions, countSolutions, result, caller, given>>
    /\ UNCHANGED carveVars
    /\ UNCHANGED <<placeVars, gameVars>>

\* BacktrackResume returning at the first completion in count mode too.
BacktrackResumeStopsAtFirst ==
    /\ pc = "bt_ret"
    /\ stack # <<>>
    /\ IF ret
       THEN /\ stack' = Pop
            /\ ret' = TRUE
            /\ pc' = "bt_ret"
            /\ UNCHANGED b
       ELSE /\ b' = SetCell(b, Top.row, Top.col, 0)
            /\ pc' = "bt_loop"
            /\ UNCHANGED <<stack, ret>>
    /\ UNCHANGED <<board, solutions, countSolutions, result, caller, given>>
    /\ UNCHANGED carveVars
    /\ UNCHANGED <<placeVars, gameVars>>

\* The recursive call came back into the loop body (core.ts:116-120).
BacktrackResume ==
    /\ pc = "bt_ret"
    /\ stack # <<>>
    /\ IF ret /\ (~countSolutions \/ solutions > 1)
       THEN /\ stack' = Pop
            /\ ret' = TRUE
            /\ pc' = "bt_ret"
            /\ UNCHANGED b
       ELSE /\ b' = SetCell(b, Top.row, Top.col, 0)
            /\ pc' = "bt_loop"
            /\ UNCHANGED <<stack, ret>>
    /\ UNCHANGED <<board, solutions, countSolutions, result, caller, given>>
    /\ UNCHANGED carveVars
    /\ UNCHANGED <<placeVars, gameVars>>

\* WriteBack without the test of the mode.
WriteBackAnyMode(g, scratch, count, solved) ==
    IF solved THEN cloneBoard(scratch) ELSE g

\* The grid solve leaves in the caller's hands (core.ts:126-131).
WriteBack(g, scratch, count, solved) ==
    IF ~count /\ solved THEN cloneBoard(scratch) ELSE g

\* The value solve returns (core.ts:132 and 134).
SolveResult(count, solved, n) ==
    IF ~count THEN [solved |-> solved]
    ELSE [solved |-> n > 0, solutions |-> n]

\* The outermost backtrack returned: core.ts:125-134.
SolveReturn ==
    /\ pc = "bt_ret"
    /\ stack = <<>>
    /\ board' = WriteBack(board, b, countSolutions, ret)
    /\ result' = SolveResult(countSolutions, ret, solutions)
    /\ pc' = IF caller = "carve" THEN "carve_check" ELSE "done"
    /\ UNCHANGED <<b, solutions, countSolutions, stack, ret, caller, given>>
    /\ UNCHANGED carveVars
    /\ UNCHANGED <<placeVars, gameVars>>

SolveSteps ==
    \/ SolveCall
    \/ BacktrackScan
    \/ BacktrackTry
    \/ BacktrackExhausted
    \/ BacktrackResume

----------------------------------------------------------------------------
\* Full grids.

\* A full legal grid for every Box: row r is the first row shifted by
\* (r % Box) * Box + r \div Box.
PatternGrid == [r \in Idx |-> [c \in Idx |->
                  (((r % Box) * Box + (r \div Box) + c) % N) + 1]]

FullGrids == {PatternGrid}

----------------------------------------------------------------------------
\* Difficulty profiles.

DifficultyLevel == {"EASY", "MEDIUM", "HARD", "EXPERT"}

\* The table of core.ts:15-48, with the source's numbers.
DIFFICULTY_CONFIG ==
    [EASY   |-> [minGiven |-> 36, maxGiven |-> 40, maxAttempts |-> 3],
     MEDIUM |-> [minGiven |-> 32, maxGiven |-> 35, maxAttempts |-> 5],
     HARD   |-> [minGiven |-> 28, maxGiven |-> 31, maxAttempts |-> 7],
     EXPERT |-> [minGiven |-> 24, maxGiven |-> 27, maxAttempts |-> 9]]

\* Number of cells of the source's grid, the 81 the given counts refer to.
SourceCells == 81

\* A given count of the table brought to the model's grid (the same share of
\* the cells; the identity when Box = 3).
Scale(x) == (x * NN) \div SourceCells

\* `config` of generatePuzzle.
Config(d) ==
    [minGiven    |-> Scale(DIFFICULTY_CONFIG[d].minGiven),
     maxGiven    |-> Scale(DIFFICULTY_CONFIG[d].maxGiven),
     maxAttempts |-> DIFFICULTY_CONFIG[d].maxAttempts]

----------------------------------------------------------------------------
\* fillBoard(board)
\*
\* A frame keeps in `rest` the values of the shuffled list 1..N that the loop
\* has not placed.  An iteration whose value fails isValidPlacement has no
\* effect, so it is folded into the next iteration that places a value, and
\* the loop is over when no value of `rest` passes the test.

\* nextCell: the first empty cell in row-major order, or NN for null.
RECURSIVE nextCell(_, _)
nextCell(g, i) ==
    IF i = NN THEN NN
    ELSE IF g[RowOf(i)][ColOf(i)] = 0 THEN i
    ELSE nextCell(g, i + 1)

\* Entry of fillBoard: core.ts:167-171.
FillCall ==
    /\ pc = "fill_call"
    /\ LET cell == nextCell(board, 0)
       IN  IF cell = NN
           THEN /\ ret' = TRUE
                /\ pc' = "fill_ret"
                /\ UNCHANGED stack
           ELSE /\ stack' = Append(stack, [row |-> RowOf(cell), col |-> ColOf(cell),
                                           rest |-> Values, entry |-> board])
                /\ pc' = "fill_loop"
                /\ UNCHANGED ret
    /\ UNCHANGED <<board, b, solutions, countSolutions, result, caller, given>>
    /\ UNCHANGED carveVars
    /\ UNCHANGED <<placeVars, gameVars>>

\* The next value of the shuffled list that passes the test is placed and
\* fillBoard is called again: core.ts:172-175.
FillTry ==
    /\ pc = "fill_loop"
    /\ \E v \in Top.rest :
          /\ isValidPlacement(board, Top.row, Top.col, v)
          /\ board' = SetCell(board, Top.row, Top.col, v)
          /\ stack' = [stack EXCEPT ![Len(stack)].rest = @ \ {v}]
    /\ pc' = "fill_call"
    /\ UNCHANGED <<b, solutions, countSolutions, ret, result, caller, given>>
    /\ UNCHANGED carveVars
    /\ UNCHANGED <<placeVars, gameVars>>

\* FillExhausted returning true where the code returns false.
FillExhaustedReturnsTrue ==
    /\ pc = "fill_loop"
    /\ \A v \in Top.rest : ~isValidPlacement(board, Top.row, Top.col, v)
    /\ stack' = Pop
    /\ ret' = TRUE
    /\ pc' = "fill_ret"
    /\ UNCHANGED <<board, b, solutions, countSolutions, result, caller, given>>
    /\ UNCHANGED carveVars
    /\ UNCHANGED <<placeVars, gameVars>>

\* No value is left that passes the test: return false (core.ts:179).
FillExhausted ==
    /\ pc = "fill_loop"
    /\ \A v \in Top.rest : ~isValidPlacement(board, Top.row, Top.col, v)
    /\ stack' = Pop
    /\ ret' = FALSE
    /\ pc' = "fill_ret"
    /\ UNCHANGED <<board, b, solutions, countSolutions, result, caller, given>>
    /\ UNCHANGED carveVars
    /\ UNCHANGED <<placeVars, gameVars>>

\* FillResume without the reset of the cell after a failed call.
FillResumeKeepsCell ==
    /\ pc = "fill_ret"
    /\ stack # <<>>
    /\ IF ret
       THEN /\ stack' = Pop
            /\ UNCHANGED <<board, pc, ret>>
       ELSE /\ pc' = "fill_loop"
            /\ UNCHANGED <<board, stack, ret>>
    /\ UNCHANGED <<b, solutions, countSolutions, result, caller, given>>
    /\ UNCHANGED carveVars
    /\ UNCHANGED <<placeVars, gameVars>>

\* The recursive call came back: core.ts:175-176.
FillResume ==
    /\ pc = "fill_ret"
    /\ stack # <<>>
    /\ IF ret
       THEN /\ stack' = Pop
            /\ UNCHANGED <<board, pc, ret>>
       ELSE /\ board' = SetCell(board, Top.row, Top.col, 0)
            /\ pc' = "fill_loop"
            /\ UNCHANGED <<stack, ret>>
    /\ UNCHANGED <<b, solutions, countSolutions, result, caller, given>>
    /\ UNCHANGED carveVars
    /\ UNCHANGED <<placeVars, gameVars>>

\* The outermost fillBoard returned to generatePuzzle (core.ts:148).
FillReturn ==
    /\ pc = "fill_ret"
    /\ stack = <<>>
    /\ pc' = "filled"
    /\ UNCHANGED <<board, b, solutions, countSolutions, stack, ret, result,
                   caller, given>>
    /\ UNCHANGED carveVars
    /\ UNCHANGED <<placeVars, gameVars>>

\* generatePuzzle up to the return of fillBoard: core.ts:147-148.
InitFill ==
    /\ board = emptyBoard
    /\ pc = "fill_call"
    /\ stack = <<>>
    /\ ret = FALSE
    /\ b = emptyBoard
    /\ solutions = 0
    /\ countSolutions = FALSE
    /\ result = [solved |-> FALSE]
    /\ caller = "top"
    /\ given = emptyBoard
    /\ difficulty \in DifficultyLevel
    /\ solution = emptyBoard
    /\ targetGiven = 0
    /\ cells = {}
    /\ attempts = 0
    /\ idx = 0
    /\ backup = 0
    /\ puzzle = emptyBoard
    /\ NoCall /\ NoGame

NextFill ==
    \/ FillCall
    \/ FillTry
    \/ FillExhausted
    \/ FillResume
    \/ FillReturn

\* The code runs to completion without suspension points: a step that can be
\* taken is taken.
SpecFill == InitFill /\ [][NextFill]_vars /\ WF_vars(NextFill)

----------------------------------------------------------------------------
\* generatePuzzle after fillBoard, and carvePuzzle.

countFilled(g) == Cardinality({i \in CellIds : g[RowOf(i)][ColOf(i)] # 0})

\* The values randInt(min, max) can return.
randInt(min, max) == min .. max

\* `cells` is kept as the set of positions not popped yet.  The shuffle decides
\* which of them is at the end of the array; the model lets it be any of the
\* MaxCarveChoice largest.
MaxCarveChoice == 2

Poppable(S) == {i \in S : Cardinality({j \in S : j > i}) < MaxCarveChoice}

\* The loop condition with `>=` for `>`.
CarveGoesOnAtTarget ==
    /\ cells # {}
    /\ countFilled(board) >= targetGiven
    /\ attempts < Config(difficulty).maxAttempts * NN

\* The loop condition of carvePuzzle, core.ts:192-196.
CarveGoesOn ==
    /\ cells # {}
    /\ countFilled(board) > targetGiven
    /\ attempts < Config(difficulty).maxAttempts * NN

\* core.ts:149 and the first lines of carvePuzzle, 188-191.
CarveStart ==
    /\ pc = "filled"
    /\ solution' = cloneBoard(board)
    /\ targetGiven' \in randInt(Config(difficulty).minGiven,
                                Config(difficulty).maxGiven)
    /\ cells' = CellIds
    /\ attempts' = 0
    /\ pc' = "carve_loop"
    /\ UNCHANGED <<board, difficulty, idx, backup, puzzle>>
    /\ UNCHANGED solveVars
    /\ UNCHANGED <<placeVars, gameVars>>

\* One pass of the loop up to the call of solve: core.ts:197-204.
CarveRemove ==
    /\ pc = "carve_loop"
    /\ CarveGoesOn
    /\ \E popped \in Poppable(cells) :
          /\ cells' = cells \ {popped}
          /\ idx' = popped
          /\ backup' = board[RowOf(popped)][ColOf(popped)]
          /\ board' = SetCell(board, RowOf(popped), ColOf(popped), 0)
    /\ countSolutions' = TRUE
    /\ caller' = "carve"
    /\ pc' = "solve"
    /\ UNCHANGED <<difficulty, solution, targetGiven, attempts, puzzle>>
    /\ UNCHANGED <<b, solutions, stack, ret, result, given>>
    /\ UNCHANGED <<placeVars, gameVars>>

\* CarveCheck reverting only when solve found no completion.
CarveCheckKeepsMultiple ==
    /\ pc = "carve_check"
    /\ board' = IF result.solutions = 0
                 THEN SetCell(board, RowOf(idx), ColOf(idx), backup)
                 ELSE board
    /\ attempts' = attempts + 1
    /\ pc' = "carve_loop"
    /\ UNCHANGED <<difficulty, solution, targetGiven, cells, idx, backup, puzzle>>
    /\ UNCHANGED solveVars
    /\ UNCHANGED <<placeVars, gameVars>>

\* solve has returned: core.ts:205-208.
CarveCheck ==
    /\ pc = "carve_check"
    /\ board' = IF result.solutions = 0 \/ result.solutions # 1
                 THEN SetCell(board, RowOf(idx), ColOf(idx), backup)
                 ELSE board
    /\ attempts' = attempts + 1
    /\ pc' = "carve_loop"
    /\ UNCHANGED <<difficulty, solution, targetGiven, cells, idx, backup, puzzle>>
    /\ UNCHANGED solveVars
    /\ UNCHANGED <<placeVars, gameVars>>

\* The loop is over: core.ts:210 and the return of generatePuzzle.
CarveReturn ==
    /\ pc = "carve_loop"
    /\ ~CarveGoesOn
    /\ puzzle' = cloneBoard(board)
    /\ pc' = "generated"
    /\ UNCHANGED <<board, difficulty, solution, targetGiven, cells, attempts,
                   idx, backup>>
    /\ UNCHANGED solveVars
    /\ UNCHANGED <<placeVars, gameVars>>

\* generatePuzzle at the return of fillBoard: `full` is one of the grids
\* fillBoard produces.
InitCarve ==
    /\ board \in FullGrids
    /\ difficulty \in DifficultyLevel
    /\ pc = "filled"
    /\ stack = <<>>
    /\ ret = TRUE
    /\ b = emptyBoard
    /\ solutions = 0
    /\ countSolutions = FALSE
    /\ result = [solved |-> FALSE]
    /\ caller = "top"
    /\ given = emptyBoard
    /\ solution = emptyBoard
    /\ targetGiven = 0
    /\ cells = {}
    /\ attempts = 0
    /\ idx = 0
    /\ backup = 0
    /\ puzzle = emptyBoard
    /\ NoCall /\ NoGame

NextCarve ==
    \/ CarveStart
    \/ CarveRemove
    \/ SolveSteps
    \/ SolveReturn
    \/ CarveCheck
    \/ CarveReturn

SpecCarve == InitCarve /\ [][NextCarve]_vars

----------------------------------------------------------------------------
\* What the claims speak of, stated without the solver: units, conflicts and
\* legal completions.

RowUnit(r) == {<<r, c>> : c \in Idx}
ColUnit(c) == {<<r, c>> : r \in Idx}
BoxUnit(k) == {<<(k \div Box) * Box + i, (k % Box) * Box + j>> :
                 i \in 0 .. (Box - 1), j \in 0 .. (Box - 1)}
Units == {RowUnit(r) : r \in Idx} \cup {ColUnit(c) : c \in Idx}
            \cup {BoxUnit(k) : k \in Idx}

CellAt(g, i) == g[RowOf(i)][ColOf(i)]

\* The other cells that share a unit with cell i.
PeerCells == [i \in CellIds |->
                {j \in CellIds \ {i} :
                    \E U \in Units : <<RowOf(i), ColOf(i)>> \in U
                                      /\ <<RowOf(j), ColOf(j)>> \in U}]

\* No unit holds the same non-zero value twice.
ConflictFree(g) ==
    \A i \in CellIds :
        CellAt(g, i) # 0 => \A j \in PeerCells[i] : CellAt(g, j) # CellAt(g, i)

\* Every unit holds each of 1..N exactly once.
LegalFull(g) ==
    \A U \in Units : \A v \in Values :
        Cardinality({p \in U : g[p[1]][p[2]] = v}) = 1

EmptyCells(g) == {i \in CellIds : CellAt(g, i) = 0}

Min(S) == CHOOSE x \in S : \A y \in S : x <= y

\* Values no peer of cell i holds.
FreeValues(g, i) == {v \in Values : \A j \in PeerCells[i] : CellAt(g, j) # v}

\* The number of legal full grids that agree with the conflict-free grid g on
\* its non-empty cells from cell i on, counted up to cap: a plain row-major
\* enumeration, cell i first.
RECURSIVE CountFrom(_, _, _), CountValues(_, _, _, _)
CountFrom(g, i, cap) ==
    IF cap = 0 THEN 0
    ELSE IF i = NN THEN 1
    ELSE IF CellAt(g, i) # 0 THEN CountFrom(g, i + 1, cap)
    ELSE CountValues(g, i, FreeValues(g, i), cap)
CountValues(g, i, vals, cap) ==
    IF vals = {} \/ cap = 0 THEN 0
    ELSE LET v == Min(vals)
             n == CountFrom(SetCell(g, RowOf(i), ColOf(i), v), i + 1, cap)
         IN  n + CountValues(g, i, vals \ {v}, cap - n)

\* min(k, cap) for k the number of legal completions of g.
Completions(g, cap) == IF ConflictFree(g) THEN CountFrom(g, 0, cap) ELSE 0

Extends(full, g) ==
    \A r \in Idx : \A c \in Idx : g[r][c] # 0 => full[r][c] = g[r][c]

----------------------------------------------------------------------------
\* Input grids.

Blank(g, S) == [r \in Idx |-> [c \in Idx |->
                  IF (r * N + c) \in S THEN 0 ELSE g[r][c]]]

\* Most cells blanked anywhere in a dense input grid.
MaxBlanks == 4
\* Sparse input grids blank the cells picked by a stride mask: with stride m
\* and size k, the cells i with (i * m) % NN < k.
MaxStride == 13
MaxMask == 12
\* Cells (the first ones in row-major order) that an input may overwrite.
MaxPoke == 2

DenseSets == {S \in SUBSET CellIds : Cardinality(S) <= MaxBlanks}

Stride(m, k) == {i \in CellIds : (i * m) % NN < k}

MaskSets == {Stride(m, k) : m \in {x \in 1 .. MaxStride : x % 2 = 1},
                            k \in (MaxMask - 2) .. MaxMask}

BlankSets == DenseSets \cup MaskSets \cup {CellIds}

\* The grids handed to solve: a full grid with some cells blanked and at most
\* one cell overwritten with an arbitrary value (which may conflict with the
\* other givens, or leave the grid without completion).
SolveInputs ==
    LET blanked == {Blank(g, S) : g \in FullGrids, S \in BlankSets}
    IN  blanked \cup {SetCell(g, RowOf(i), ColOf(i), v) :
                        g \in blanked, i \in 0 .. (MaxPoke - 1), v \in Values}

InitSolve ==
    /\ board \in SolveInputs
    /\ countSolutions \in BOOLEAN
    /\ b = emptyBoard
    /\ solutions = 0
    /\ stack = <<>>
    /\ pc = "solve"
    /\ ret = FALSE
    /\ result = [solved |-> FALSE]
    /\ caller = "top"
    /\ given = emptyBoard
    /\ difficulty = "EASY"
    /\ solution = emptyBoard
    /\ targetGiven = 0
    /\ cells = {}
    /\ attempts = 0
    /\ idx = 0
    /\ backup = 0
    /\ puzzle = emptyBoard
    /\ NoCall /\ NoGame

NextSolve == SolveSteps \/ SolveReturn

SpecSolve == InitSolve /\ [][NextSolve]_vars

----------------------------------------------------------------------------
\* A direct call isValidPlacement(grid, row, col, value).

\* The grids of the direct calls: the input grids that are nearly full or
\* sparse.
PlacementGrids ==
    {g \in SolveInputs : \/ Cardinality(EmptyCells(g)) <= 1
                         \/ Cardinality(EmptyCells(g)) >= MaxMask - 2}

CallIsValidPlacement ==
    /\ pc = "place_call"
    /\ \E row \in Idx, col \in Idx, value \in 0 .. N :
          /\ args' = [row |-> row, col |-> col, value |-> value]
          /\ valid' = isValidPlacement(board, row, col, value)
    /\ pc' = "place_done"
    /\ UNCHANGED <<board, solveVars, carveVars, gameVars>>

InitPlacement ==
    /\ board \in PlacementGrids
    /\ pc = "place_call"
    /\ stack = <<>>
    /\ ret = FALSE
    /\ b = emptyBoard
    /\ solutions = 0
    /\ countSolutions = FALSE
    /\ result = [solved |-> FALSE]
    /\ caller = "top"
    /\ given = emptyBoard
    /\ difficulty = "EASY"
    /\ solution = emptyBoard
    /\ targetGiven = 0
    /\ cells = {}
    /\ attempts = 0
    /\ idx = 0
    /\ backup = 0
    /\ puzzle = emptyBoard
    /\ NoCall /\ NoGame

NextPlacement == CallIsValidPlacement

SpecPlacement == InitPlacement /\ [][NextPlacement]_vars

\* The cell the call is about, as an index.
Target == args.row * N + args.col

\* C8: isValidPlacement returns false exactly when the value is held by some
\* cell of the target's row, column or box, the target cell itself included.
C8_FalseIffValueInUnits ==
    pc = "place_done" =>
        (valid = ~(\E j \in PeerCells[Target] \cup {Target} :
                      CellAt(board, j) = args.value))

\* The target cell holds the value tested and nothing else stands against it:
\* the call returns false, and would return true after clearing the cell.
C8_Witness ==
    /\ pc = "place_done"
    /\ args.value # 0
    /\ CellAt(board, Target) = args.value
    /\ ~valid
    /\ \A j \in PeerCells[Target] : CellAt(board, j) # args.value

----------------------------------------------------------------------------
\* The game session: useSudoku.
\*
\* Every handler is called from a DOM event of its own, and React renders
\* between two such events, so a handler reads the state the previous
\* handler left.  Each action below is one event with the state updates it
\* queues applied.

\* What carvePuzzle can return for the full grid `full` and the target t,
\* over all removal orders: a grid with one completion cut out of `full`
\* that either has t givens, or has more and loses uniqueness with any
\* further removal (every position was tried).  SpecCarve checks that its
\* runs return such grids (GeneratedIsCarveOutcome).
IsCarveOutcome(p, full, t) ==
    /\ Extends(full, p)
    /\ Completions(p, 2) = 1
    /\ \/ countFilled(p) = t
       \/ /\ countFilled(p) > t
          /\ \A i \in CellIds \ EmptyCells(p) :
                Completions(SetCell(p, RowOf(i), ColOf(i), 0), 2) # 1

\* Stride of the masks the session's puzzles are cut with.
GameStride == 5

\* The values generatePuzzle(d) returns to the session, for each d: the carve
\* outcomes of the full grids whose empty cells form a stride mask.
generatePuzzle ==
    [d \in DifficultyLevel |->
        UNION {{[puzzle |-> p, solution |-> g] :
                  p \in {q \in {Blank(g, Stride(GameStride, NN - t))} :
                            IsCarveOutcome(q, g, t)}} :
               g \in FullGrids,
               t \in randInt(Config(d).minGiven, Config(d).maxGiven)}]

isComplete(g) == \A r \in Idx : \A c \in Idx : g[r][c] # 0

boardEquals(x, y) == \A r \in Idx : \A c \in Idx : x[r][c] = y[r][c]

\* The loop of recomputeConflicts from cell i on: each non-empty cell is
\* cleared, tested and written back.  Yields the grid as the loop leaves it
\* and the conflict keys.
RECURSIVE recomputeConflicts(_, _, _)
recomputeConflicts(g, i, conflictKeys) ==
    IF i = NN THEN [board |-> g, conflictKeys |-> conflictKeys]
    ELSE LET r == RowOf(i)
             c == ColOf(i)
             v == g[r][c]
         IN  IF v = 0 THEN recomputeConflicts(g, i + 1, conflictKeys)
             ELSE LET cleared == SetCell(g, r, c, 0)
                      keys == IF isValidPlacement(cleared, r, c, v)
                              THEN conflictKeys
                              ELSE conflictKeys \cup {i}
                  IN  recomputeConflicts(SetCell(cleared, r, c, v), i + 1, keys)

\* The state init(d) sets when generatePuzzle returned gen (lines 51-61).
AfterInit(st, gen) ==
    [st EXCEPT !.puzzle = gen.puzzle,
               !.solution = gen.solution,
               !.working = cloneBoard(gen.puzzle),
               !.conflicts = {},
               !.completed = FALSE]

\* place without the test of the given cell.
AfterPlaceAnyCell(st, row, col, value) ==
    IF st.completed THEN st
    ELSE LET next == SetCell(cloneBoard(st.working), row, col, value)
             rc == recomputeConflicts(next, 0, {})
             won == isComplete(rc.board) /\ boardEquals(rc.board, st.solution)
         IN  [st EXCEPT !.working = rc.board,
                        !.conflicts = rc.conflictKeys,
                        !.completed = IF won THEN TRUE ELSE @]

\* place taking a full board for a win without comparing it to the solution.
AfterPlaceWinsWhenFull(st, row, col, value) ==
    IF st.puzzle[row][col] # 0 \/ st.completed THEN st
    ELSE LET next == SetCell(cloneBoard(st.working), row, col, value)
             rc == recomputeConflicts(next, 0, {})
             won == isComplete(rc.board)
         IN  [st EXCEPT !.working = rc.board,
                        !.conflicts = rc.conflictKeys,
                        !.completed = IF won THEN TRUE ELSE @]

\* The state place(row, col, value) leaves (lines 86-101); value 0 is null.
AfterPlace(st, row, col, value) ==
    IF st.puzzle[row][col] # 0 \/ st.completed THEN st
    ELSE LET next == SetCell(cloneBoard(st.working), row, col, value)
             rc == recomputeConflicts(next, 0, {})
             won == isComplete(rc.board) /\ boardEquals(rc.board, st.solution)
         IN  [st EXCEPT !.working = rc.board,
                        !.conflicts = rc.conflictKeys,
                        !.completed = IF won THEN TRUE ELSE @]

\* Number of cells in which the player enters a value that is not the
\* solution's.
MaxWrong == 1

\* Those cells: the first MaxWrong editable cells of the puzzle.
ErrorCells(st) ==
    {i \in EmptyCells(st.puzzle) :
        Cardinality({j \in EmptyCells(st.puzzle) : j < i}) < MaxWrong}

Playing == pc = "playing"

\* The effect of lines 63-67 after the first render.
AutoGenerate ==
    /\ pc = "mounted"
    /\ state.puzzle = <<>>
    /\ \E gen \in generatePuzzle[state.difficulty] :
          /\ generated' = gen
          /\ state' = AfterInit(state, gen)
    /\ pc' = "playing"
    /\ UNCHANGED <<board, solveVars, carveVars, placeVars, timerVars>>

\* newGame(d): the New Game button (d absent) and the difficulty selector.
newGame ==
    /\ Playing
    /\ \E d \in DifficultyLevel \cup {"none"} :
          LET diff == IF d = "none" THEN state.difficulty ELSE d
          IN  \E gen \in generatePuzzle[diff] :
                 /\ generated' = gen
                 /\ state' = AfterInit([state EXCEPT !.difficulty = diff], gen)
    /\ UNCHANGED <<board, pc, solveVars, carveVars, placeVars, timerVars>>

\* The values the player enters in cell i: null (0), the solution's value
\* and, in the cells of ErrorCells, one other value.
PlaceValues(st, i) ==
    {0, CellAt(st.solution, i)} \cup
        (IF i \in ErrorCells(st) THEN {(CellAt(st.solution, i) % N) + 1} ELSE {})

\* place(row, col, value) from the board's keys or the number pad.
place ==
    /\ Playing
    /\ \E i \in CellIds :
          \E value \in PlaceValues(state, i) :
             state' = AfterPlace(state, RowOf(i), ColOf(i), value)
    /\ UNCHANGED <<board, pc, solveVars, carveVars, placeVars, generated,
                   timerVars>>

\* giveHint (lines 125-135).
giveHint ==
    /\ Playing
    /\ ~state.completed
    /\ EmptyCells(state.working) # {}
    /\ \E i \in EmptyCells(state.working) :
          state' = AfterPlace(state, RowOf(i), ColOf(i), CellAt(state.solution, i))
    /\ UNCHANGED <<board, pc, solveVars, carveVars, placeVars, generated,
                   timerVars>>

\* reset (lines 108-114).
reset ==
    /\ Playing
    /\ state' = [state EXCEPT !.working = cloneBoard(state.puzzle),
                               !.conflicts = {},
                               !.completed = FALSE]
    /\ UNCHANGED <<board, pc, solveVars, carveVars, placeVars, generated,
                   timerVars>>

\* The hook as App mounts it: useSudoku({ difficulty: "EASY" }).
InitGame ==
    /\ pc = "mounted"
    /\ NoGame
    /\ NoCall
    /\ board = emptyBoard
    /\ stack = <<>>
    /\ ret = FALSE
    /\ b = emptyBoard
    /\ solutions = 0
    /\ countSolutions = FALSE
    /\ result = [solved |-> FALSE]
    /\ caller = "top"
    /\ given = emptyBoard
    /\ difficulty = "EASY"
    /\ solution = emptyBoard
    /\ targetGiven = 0
    /\ cells = {}
    /\ attempts = 0
    /\ idx = 0
    /\ backup = 0
    /\ puzzle = emptyBoard

NextGame ==
    \/ AutoGenerate
    \/ newGame
    \/ place
    \/ giveHint
    \/ reset

SpecGame == InitGame /\ [][NextGame]_vars

----------------------------------------------------------------------------
\* GameTimer, as App mounts it: once, with the session's completed, elapsedMs
\* and difficulty as props.
\*
\* The session is taken by what it hands to the timer: a game is completed
\* after some elapsed time, a new game is started at some difficulty, the
\* game is reset.  An action is one such event with the render that follows
\* and the effect of lines 42-52 run after it.

\* Longest elapsed time of a game, in ms.
MaxElapsed == 3

\* String(n) for n >= 0: the decimal digits, most significant first.
RECURSIVE String(_)
String(n) == IF n < 10 THEN <<n>> ELSE Append(String(n \div 10), n % 10)

\* parseInt(raw, 10) on a string of digits.
RECURSIVE parseInt(_)
parseInt(raw) ==
    IF Len(raw) = 1 THEN raw[1]
    ELSE parseInt(SubSeq(raw, 1, Len(raw) - 1)) * 10 + raw[Len(raw)]

\* Line 33.
storageKey(d) == "bestTime_" \o d

\* The effect of lines 42-52 with the props p: the bestTime state and the
\* store it leaves.
BestTimeEffect(p, prev, store) ==
    IF ~p.completed THEN [bestTime |-> prev, localStorage |-> store]
    ELSE IF prev = {} \/ (\A x \in prev : p.elapsedCompleted < x)
    THEN [bestTime |-> {p.elapsedCompleted},
          localStorage |-> (storageKey(p.difficulty) :> String(p.elapsedCompleted))
                               @@ store]
    ELSE [bestTime |-> prev, localStorage |-> store]

\* The session hands the props p; the timer renders and runs its effect.
Render(p) ==
    /\ timer' = p
    /\ bestTime' = BestTimeEffect(p, bestTime, localStorage).bestTime
    /\ localStorage' = BestTimeEffect(p, bestTime, localStorage).localStorage

\* A place completes the game (part_000:93-96).
TimerComplete ==
    /\ pc = "timing"
    /\ ~timer.completed
    /\ \E e \in 1 .. MaxElapsed :
          /\ Render([timer EXCEPT !.completed = TRUE, !.elapsedCompleted = e])
          /\ finished' = [finished EXCEPT ![timer.difficulty] = @ \cup {e}]
    /\ UNCHANGED <<board, pc, solveVars, carveVars, placeVars, state, generated>>

\* The New Game button and the difficulty selector (App.tsx:58-74,
\* part_000:116-123 and 51-61).
TimerNewGame ==
    /\ pc = "timing"
    /\ \E d \in DifficultyLevel :
          Render([completed |-> FALSE, elapsedCompleted |-> 0, difficulty |-> d])
    /\ UNCHANGED <<board, pc, solveVars, carveVars, placeVars, state, generated,
                   finished>>

\* The Reset button (part_000:108-114).
TimerReset ==
    /\ pc = "timing"
    /\ Render([timer EXCEPT !.completed = FALSE, !.elapsedCompleted = 0])
    /\ UNCHANGED <<board, pc, solveVars, carveVars, placeVars, state, generated,
                   finished>>

\* GameTimer at its first render: difficulty EASY, nothing stored, so the
\* initializer of lines 34-40 yields null.
InitTimer ==
    /\ pc = "timing"
    /\ NoGame
    /\ NoCall
    /\ board = emptyBoard
    /\ stack = <<>>
    /\ ret = FALSE
    /\ b = emptyBoard
    /\ solutions = 0
    /\ countSolutions = FALSE
    /\ result = [solved |-> FALSE]
    /\ caller = "top"
    /\ given = emptyBoard
    /\ difficulty = "EASY"
    /\ solution = emptyBoard
    /\ targetGiven = 0
    /\ cells = {}
    /\ attempts = 0
    /\ idx = 0
    /\ backup = 0
    /\ puzzle = emptyBoard

NextTimer ==
    \/ TimerComplete
    \/ TimerNewGame
    \/ TimerReset

SpecTimer == InitTimer /\ [][NextTimer]_vars

----------------------------------------------------------------------------
\* Claims about solve.

InBacktrack == pc \in {"bt_call", "bt_loop", "bt_ret"}
SolveDone == pc = "done"

\* C2: in count mode on a grid whose givens do not conflict, solve returns
\* solutions = min(k, 2), k the number of legal completions of the grid, with
\* solved = (solutions > 0), and the counter never goes above 2 on the way.
C2_CountIsMinK2 ==
    (countSolutions /\ ConflictFree(IF pc = "solve" THEN board ELSE given)) =>
        /\ solutions <= 2
        /\ SolveDone =>
              /\ result.solutions = Completions(given, 2)
              /\ result.solved = (result.solutions > 0)

\* A count-mode call that met a second completion and was aborted.
C2_Witness ==
    /\ SolveDone /\ countSolutions /\ ConflictFree(given)
    /\ result.solutions = 2
    /\ Completions(given, 3) = 3

\* The properties of a successful first-solution result.
SolvedGridOK ==
    /\ EmptyCells(board) = {}
    /\ Extends(board, given)
    /\ LegalFull(board)

\* C3: for any input grid, solved: true leaves a full legal grid that keeps
\* the givens, and solved: false means there is no completion.
C3_AnyInput ==
    (SolveDone /\ ~countSolutions) =>
        /\ result.solved => SolvedGridOK
        /\ ~result.solved => Completions(given, 1) = 0

\* What the code does: the same for input grids whose non-empty cells do not
\* conflict; and for any input, solved: false means there is no completion.
SolveOnConflictFreeInput ==
    (SolveDone /\ ~countSolutions) =>
        /\ (result.solved /\ ConflictFree(given)) => SolvedGridOK
        /\ ~result.solved => Completions(given, 1) = 0

\* C4: the caller's grid keeps its value throughout solve and after it,
\* except after a first-solution call that returned solved: true.
C4_CallerGridKept ==
    /\ InBacktrack => board = given
    /\ (SolveDone /\ (countSolutions \/ ~result.solved)) => board = given

\* A count-mode call that returned with its scratch grid filled (two
\* completions met) and left the caller's grid with its empty cells.
C4_Witness ==
    /\ SolveDone /\ countSolutions /\ result.solutions = 2
    /\ EmptyCells(b) = {}
    /\ EmptyCells(board) # {}
    /\ board = given


\* C5: from the empty grid fillBoard finishes, whatever the shuffles, and when
\* it has finished it has returned true and left a full grid in which every
\* row, column and box holds each of 1..N exactly once.
C5_FillTerminatesLegal ==
    /\ <>(pc = "filled")
    /\ [](pc = "filled" => (ret /\ EmptyCells(board) = {} /\ LegalFull(board)))

\* fillBoard has returned true with a full legal grid other than PatternGrid.
C5_Witness ==
    /\ pc = "filled" /\ ret
    /\ LegalFull(board)
    /\ board # PatternGrid

----------------------------------------------------------------------------
\* Claims about carvePuzzle and generatePuzzle.

Budget == Config(difficulty).maxAttempts * NN

\* C1: after every pass of the carving loop the grid has exactly one legal
\* completion and that completion is `solution`; the same holds of the puzzle
\* generatePuzzle returns, and the count solve reported for a grid it was
\* handed is 1 exactly when that grid has one completion.
C1_UniqueCompletion ==
    /\ pc = "carve_loop" =>
          /\ Completions(board, 2) = 1
          /\ Extends(solution, board)
          /\ LegalFull(solution)
    /\ pc = "carve_check" =>
          (result.solutions = 1) = (Completions(board, 2) = 1)
    /\ pc = "generated" =>
          /\ Completions(puzzle, 2) = 1
          /\ Extends(solution, puzzle)
          /\ LegalFull(solution)

\* generatePuzzle returned a puzzle with empty cells after the loop rejected a
\* removal.
C1_Witness ==
    /\ pc = "generated"
    /\ attempts > NN - countFilled(puzzle)
    /\ countFilled(puzzle) < NN - Box
    /\ Completions(puzzle, 2) = 1

\* C6: the target is in [minGiven, maxGiven]; the grid never has fewer
\* non-empty cells than the target nor more than NN, and so has the returned
\* puzzle; a pass of the loop takes one cell out and puts at most that one
\* back, and nothing else changes the count.
C6_FilledCount ==
    /\ [](pc \in {"carve_loop", "solve", "bt_call", "bt_loop", "bt_ret",
                   "carve_check", "generated"} =>
             /\ targetGiven \in Config(difficulty).minGiven ..
                                 Config(difficulty).maxGiven
             /\ targetGiven <= countFilled(board)
             /\ countFilled(board) <= NN)
    /\ [](pc = "generated" =>
             /\ targetGiven <= countFilled(puzzle)
             /\ countFilled(puzzle) <= NN)
    /\ [][IF pc = "carve_loop" /\ pc' = "solve"
           THEN countFilled(board') = countFilled(board) - 1
           ELSE IF pc = "carve_check"
           THEN countFilled(board') \in {countFilled(board), countFilled(board) + 1}
           ELSE countFilled(board') = countFilled(board)]_vars

\* The loop stopped because the target was reached, after a rejected removal.
C6_Witness ==
    /\ pc = "generated"
    /\ countFilled(puzzle) = targetGiven
    /\ attempts > NN - countFilled(puzzle)

\* C7: when carving ends with more givens than the target, it is
\* because the attempt counter has reached the budget.
C7_StopsOnBudget ==
    (pc = "generated" /\ countFilled(puzzle) > targetGiven) =>
        attempts >= Budget

\* What the code does instead: every pass pops one position, so the counter
\* is the number of positions popped and stays below the budget.
CarveAttemptsBelowBudget ==
    pc \in {"carve_loop", "generated"} =>
        /\ attempts = NN - Cardinality(cells)
        /\ attempts < Budget

\* What generatePuzzle returns is a carve outcome in the sense the game
\* session draws its puzzles from.
GeneratedIsCarveOutcome ==
    pc = "generated" => IsCarveOutcome(puzzle, solution, targetGiven)

\* Number of legal candidate values of the empty cell i.
Options(g, i) == Cardinality(FreeValues(g, i))

\* The cell the scan of backtrack selects on the scratch grid, as an index.
Chosen(g) == SelectCell(g).row * N + SelectCell(g).col

\* C10: whenever backtrack is entered on a scratch grid with an
\* empty cell, the scan selects the row-major first of the empty cells that
\* have the fewest candidates of all empty cells.
C10_FewestOfAll ==
    (pc = "bt_call" /\ EmptyCells(b) # {}) =>
        /\ Chosen(b) \in EmptyCells(b)
        /\ \A i \in EmptyCells(b) :
              /\ Options(b, i) >= Options(b, Chosen(b))
              /\ i < Chosen(b) => Options(b, i) > Options(b, Chosen(b))

\* What the code does: the selected cell is empty, every empty cell before it
\* has more candidates, and an empty cell after it has fewer only in one
\* case: the selected cell has exactly one candidate and the later cell has
\* none.
ScanFewestUpToEarlyStop ==
    (pc = "bt_call" /\ EmptyCells(b) # {}) =>
        /\ Chosen(b) \in EmptyCells(b)
        /\ \A i \in EmptyCells(b) :
              /\ i < Chosen(b) => Options(b, i) > Options(b, Chosen(b))
              /\ i > Chosen(b) =>
                    \/ Options(b, i) >= Options(b, Chosen(b))
                    \/ Options(b, Chosen(b)) = 1 /\ Options(b, i) = 0

----------------------------------------------------------------------------
\* Scoped mutation of backtrack and fillBoard.

\* solve on its inputs and fillBoard on the empty grid, side by side.
InitSolveFill == InitSolve \/ InitFill

NextSolveFill == NextSolve \/ NextFill

SpecSolveFill == InitSolveFill /\ [][NextSolveFill]_vars

\* C11: a call of backtrack (either mode) or of fillBoard that returns false
\* leaves the grid it worked on equal, cell for cell, to the grid it was
\* entered with; so does, in count mode, a call whose branch reached the
\* first solution and was unwound.  While a call is in its loop between two
\* candidates the grid is the entry grid as well.
C11_FailureRestoresGrid ==
    /\ [][(pc = "bt_loop" /\ pc' = "bt_ret" /\ ~ret') => b' = Top.entry]_vars
    /\ [][(pc = "fill_loop" /\ pc' = "fill_ret" /\ ~ret') =>
             board' = Top.entry]_vars
    /\ [](pc = "bt_loop" => b = Top.entry)
    /\ [](pc = "fill_loop" => board = Top.entry)

\* A call of backtrack in count mode has just returned false after the
\* search below it met the first solution; its caller's cell is still set.
C11_Witness ==
    /\ pc = "bt_ret" /\ ~ret /\ stack # <<>>
    /\ countSolutions /\ solutions = 1
    /\ b[Top.row][Top.col] # 0
    /\ SetCell(b, Top.row, Top.col, 0) = Top.entry

----------------------------------------------------------------------------
\* Claims about the game session.

GivenCells(st) == CellIds \ EmptyCells(st.puzzle)

\* C9: once a game is set up, whatever place, giveHint and reset calls
\* follow, the session's puzzle and solution are the grids generatePuzzle
\* returned, and every given cell of the puzzle holds the puzzle's value in
\* the working board; a place, giveHint or reset changes nothing but
\* non-given cells of the working board, the conflicts and completed.
C9_PuzzleAndGivensKept ==
    /\ [](Playing =>
             /\ state.puzzle = generated.puzzle
             /\ state.solution = generated.solution
             /\ \A i \in GivenCells(state) :
                   CellAt(state.working, i) = CellAt(state.puzzle, i))
    /\ [][(Playing /\ generated' = generated) =>
             /\ state'.puzzle = state.puzzle
             /\ state'.solution = state.solution
             /\ \A i \in GivenCells(state) :
                   CellAt(state'.working, i) = CellAt(state.working, i)]_vars

\* The player has filled editable cells, one of them with a value that is not
\* the solution's and is marked as a conflict, and the puzzle is as generated.
C9_Witness ==
    /\ Playing
    /\ state.puzzle = generated.puzzle
    /\ \E i \in EmptyCells(state.puzzle) :
          /\ CellAt(state.working, i) \notin {0, CellAt(state.solution, i)}
          /\ i \in state.conflicts
    /\ \E i \in EmptyCells(state.puzzle) :
          CellAt(state.working, i) = CellAt(state.solution, i)

\* C12: in every state of a session with a game set up, completed is true
\* exactly when the working board has no empty cell and equals the solution;
\* while completed is true a place on any cell with any value leaves the
\* state as it is, and giveHint does nothing; no reset and no newGame leaves
\* completed true.
C12_CompletedIffSolved ==
    /\ [](Playing =>
             (state.completed <=>
                 (isComplete(state.working) /\
                  boardEquals(state.working, state.solution))))
    /\ [](Playing /\ state.completed =>
             /\ \A i \in CellIds : \A value \in 0 .. N :
                   AfterPlace(state, RowOf(i), ColOf(i), value) = state
             /\ ~ENABLED giveHint)
    /\ [][(Playing /\ state'.completed) => ~(reset \/ newGame)]_vars

\* A game was won: the working board is full and is the solution, after the
\* player had filled the puzzle's empty cells.
C12_Witness ==
    /\ Playing
    /\ state.completed
    /\ EmptyCells(state.puzzle) # {}
    /\ isComplete(state.working)
    /\ boardEquals(state.working, state.solution)

----------------------------------------------------------------------------
\* Claims about GameTimer.

\* The value stored under bestTime_<d>: {} when the key is absent.
Stored(d) ==
    IF storageKey(d) \in DOMAIN localStorage
    THEN {parseInt(localStorage[storageKey(d)])}
    ELSE {}

\* The least elapsed time of the games completed at d: {} when there is none.
Fastest(d) == IF finished[d] = {} THEN {} ELSE {Min(finished[d])}

\* C13: the best time is kept per difficulty: for every difficulty the value
\* stored under bestTime_<difficulty> is the least elapsed time of the games
\* completed at that difficulty and is absent when there is none, and the
\* best time displayed is that of the selected difficulty.
C13_BestPerDifficulty ==
    pc = "timing" =>
        /\ \A d \in DifficultyLevel : Stored(d) = Fastest(d)
        /\ bestTime = Fastest(timer.difficulty)

\* What the code does: bestTime is one value for all difficulties, the least
\* elapsed time of all games completed since the timer was mounted, and a
\* key holds the elapsed time of some game completed at its difficulty.
BestTimeIsOverall ==
    pc = "timing" =>
        /\ bestTime = (IF UNION {finished[d] : d \in DifficultyLevel} = {} THEN {}
                       ELSE {Min(UNION {finished[d] : d \in DifficultyLevel})})
        /\ \A d \in DifficultyLevel : Stored(d) \subseteq finished[d]

====
